---- MODULE Spec2Model ----
(***************************************************************************)
(* A model of the synchronisation engine of kitchen-fridge (my_tasks):     *)
(* Provider::sync (src/src/provider.rs) reconciling a server source and a  *)
(* local cache, calendar by calendar.                                      *)
(*                                                                         *)
(* Calendar's item store (add_item, delete_item, get_tasks_modified_since, *)
(* get_items_deleted_since), Task's setters and the SyncSlave checkpoint   *)
(* are outside the sources modelled here (src/src/data/calendar.rs holds   *)
(* only name and tasks); they follow spec.md sections 3, 4.1 and 4.3.      *)
(***************************************************************************)
EXTENDS Integers, FiniteSets, Sequences, TLC

\* ------------------------------------------------------------------ bounds
NumIds == 3
NumCals == 2
MaxTime == 3
MaxEdits == 2
MaxAborts == 1

\* Option::None, for the checkpoint and for "no tombstone"
None == -1

Ids == 1..NumIds
Urls == 1..NumCals
Time == 0..MaxTime

\* Identities are globally unique: each belongs to one logical list.
CalOf(i) == ((i - 1) % NumCals) + 1
IdsOf(u) == {i \in Ids : CalOf(i) = u}

\* Names a task can carry: its original name, the name a rename on the
\* server gives it, the name a rename in the local cache gives it
\* (tests/sync.rs: "F renamed in the server" / "F renamed locally as well!").
OrigName == 0
NameBy(side) == IF side = "server" THEN 1 ELSE 2

\* The empty slot of an identity in a calendar (get_item_by_id -> None)
NoItem == [name |-> None, completed |-> FALSE, last_modified |-> None]

VARIABLES
    now,        \* Utc::now(), one clock for both sources (both are Caches in tests/sync.rs)
    server,     \* Provider.server: url -> Calendar
    local,      \* Provider.local: url -> Calendar
    local_urls, \* the urls for which local.get_calendar_mut is Some
    last_sync,  \* local.get_last_sync(): None or a time
    pc,         \* position of sync(): "idle", "loop"
    idx,        \* the for loop of sync(): the next element of cals_server
    result,     \* what the last sync() call returned: "none", "Ok", "Err", "Dropped"
    log,        \* log::warn! / log::error! lines of the current (or last) pass
    pre,        \* history: both sources as they were when the pass started
    resume,     \* history: the start of a dropped pass, until a source is mutated
    edits,      \* the number of mutations made by the users so far
    aborts      \* the number of sync() calls that failed or were dropped so far

vars == <<now, server, local, local_urls, last_sync, pc, idx, result, log, pre,
          resume, edits, aborts>>

\* ------------------------------------------------------------ Task / Item
\* Task::new(name, last_modified)
NewTask(name, t) == [name |-> name, completed |-> FALSE, last_modified |-> t]

\* Task::set_name: a mutation updates the last-modified time
set_name(item, name, t) == [item EXCEPT !.name = name, !.last_modified = t]

\* Task::set_completed
set_completed(item, t) == [item EXCEPT !.completed = TRUE, !.last_modified = t]

\* --------------------------------------------------------------- Calendar
EmptyCalendar(u) ==
    [items |-> [i \in IdsOf(u) |-> NoItem], deleted |-> [i \in IdsOf(u) |-> None]]

\* Calendar::add_item: inserts; DuplicateIdentity when the identity is held
\* already (the caller, move_to_calendar, drops the outcome)
add_item(cal, id, item) ==
    IF cal.items[id] # NoItem THEN cal ELSE [cal EXCEPT !.items[id] = item]

\* Calendar::delete_item: removes a held record and keeps a tombstone
\* (identity + deletion time); a no-op for an absent identity
delete_item(cal, id, t) ==
    IF cal.items[id] = NoItem THEN cal
    ELSE [cal EXCEPT !.items[id] = NoItem, !.deleted[id] = t]

\* Calendar::get_tasks_modified_since(Option<DateTime>): the identities whose
\* record was modified strictly after the bound; all of them without a bound
get_tasks_modified_since(cal, since) ==
    {i \in DOMAIN cal.items :
        /\ cal.items[i] # NoItem
        /\ (since = None \/ cal.items[i].last_modified > since)}

\* Calendar::get_items_deleted_since(DateTime): the tombstones after the bound
get_items_deleted_since(cal, since) ==
    {i \in DOMAIN cal.deleted : cal.deleted[i] # None /\ cal.deleted[i] > since}

Held(cal) == {i \in DOMAIN cal.items : cal.items[i] # NoItem}

\* ------------------------------------------------------ provider.rs helpers
\* A Vec<Item> / Vec<ItemId> as a sequence, in identity order.
RECURSIVE SeqOf(_)
SeqOf(S) ==
    IF S = {} THEN <<>>
    ELSE LET m == CHOOSE x \in S : \A y \in S : x <= y IN <<m>> \o SeqOf(S \ {m})

\* move_to_calendar: add every item of the vector, first to last
RECURSIVE move_to_calendar(_, _)
move_to_calendar(items, calendar) ==
    IF Len(items) = 0 THEN calendar
    ELSE move_to_calendar(Tail(items),
                          add_item(calendar, Head(items).id, Head(items).item))

\* remove_from_calendar: delete every identity of the vector
RECURSIVE remove_from_calendar(_, _, _)
remove_from_calendar(ids, calendar, t) ==
    IF Len(ids) = 0 THEN calendar
    ELSE remove_from_calendar(Tail(ids), delete_item(calendar, Head(ids), t), t)

\* ---------------------------------------------------------- Provider::sync
\* One iteration of `for cal_server in cals_server`, for a paired calendar:
\* cs is cal_server, cl is cal_local, T is last_sync, t is the clock.

\* let server_mod = cal_server.get_tasks_modified_since(last_sync);
server_mod(cs, T) == get_tasks_modified_since(cs, T)

\* (variant: tombstones are read even when there is no checkpoint)
server_del_always(cs, T) == get_items_deleted_since(cs, T)

\* let server_del = match last_sync { Some(date) => ..deleted_since(date), None => Vec::new() }
server_del(cs, T) == IF T # None THEN get_items_deleted_since(cs, T) ELSE {}

\* let local_del = match last_sync { ... }
local_del(cl, T) == IF T # None THEN get_items_deleted_since(cl, T) ELSE {}

\* (variant: the pull removes only what the server modified)
tasks_id_to_remove_from_local_only_modified(cs, T) == server_mod(cs, T)

\* (variant: the pull removes only what the server deleted)
tasks_id_to_remove_from_local_only_deleted(cs, T) == server_del(cs, T)

\* the two loops of the pull: every deleted_id of server_del, and every new_id
\* of server_mod for which server_mod.contains_key(new_id)
tasks_id_to_remove_from_local(cs, T) ==
    server_del(cs, T) \cup {new_id \in server_mod(cs, T) : new_id \in server_mod(cs, T)}

\* (variant: the copy pulled from the server loses its timestamp)
tasks_to_add_to_local_restamped(cs, T) ==
    LET ids == SeqOf(server_mod(cs, T))
    IN [k \in 1..Len(ids) |->
            [id |-> ids[k], item |-> [cs.items[ids[k]] EXCEPT !.last_modified = 0]]]

\* tasks_to_add_to_local.push((*new_item).clone()) for every entry of server_mod
tasks_to_add_to_local(cs, T) ==
    LET ids == SeqOf(server_mod(cs, T))
    IN [k \in 1..Len(ids) |-> [id |-> ids[k], item |-> cs.items[ids[k]]]]

\* remove_from_calendar(&tasks_id_to_remove_from_local, cal_local);
local_after_removal(cs, cl, T, t) ==
    remove_from_calendar(SeqOf(tasks_id_to_remove_from_local(cs, T)), cl, t)

\* let local_mod = cal_local.get_tasks_modified_since(last_sync);
\* read after the removal above
local_mod(cs, cl, T, t) ==
    get_tasks_modified_since(local_after_removal(cs, cl, T, t), T)

\* (variant: every local deletion is pushed, server-modified or not)
tasks_id_to_remove_from_server_all(cs, cl, T) == local_del(cl, T)

\* (variant: local deletions are not pushed)
tasks_id_to_remove_from_server_none(cs, cl, T) == {}

\* for deleted_id in local_del { if server_mod.contains_key(..) { continue } push }
tasks_id_to_remove_from_server(cs, cl, T) ==
    {deleted_id \in local_del(cl, T) : deleted_id \notin server_mod(cs, T)}

\* for (new_id, new_item) in &local_mod { if server_mod.contains_key(..) { continue } push }
tasks_to_add_to_server(cs, cl, T, t) ==
    LET ids == SeqOf({new_id \in local_mod(cs, cl, T, t) : new_id \notin server_mod(cs, T)})
    IN [k \in 1..Len(ids) |->
            [id |-> ids[k], item |-> local_after_removal(cs, cl, T, t).items[ids[k]]]]

\* the log::warn! lines of the iteration
warnings(u, cs, cl, T, t) ==
    {<<"conflict", u, i>> : i \in {new_id \in server_mod(cs, T) : new_id \in server_mod(cs, T)}}
    \cup {<<"conflict_local_del", u, i>> :
            i \in {d \in local_del(cl, T) : d \in server_mod(cs, T)}}
    \cup {<<"conflict", u, i>> :
            i \in {new_id \in local_mod(cs, cl, T, t) : new_id \in server_mod(cs, T)}}

\* remove_from_calendar(&tasks_id_to_remove_from_server, cal_server);
\* move_to_calendar(&mut tasks_to_add_to_local, cal_local);
\* move_to_calendar(&mut tasks_to_add_to_server, cal_server);
SyncPair(cs, cl, T, t) ==
    [server |-> move_to_calendar(
                    tasks_to_add_to_server(cs, cl, T, t),
                    remove_from_calendar(SeqOf(tasks_id_to_remove_from_server(cs, cl, T)), cs, t)),
     local  |-> move_to_calendar(tasks_to_add_to_local(cs, T),
                                 local_after_removal(cs, cl, T, t))]

\* SyncSlave::update_last_sync(Option<DateTime>): the given time, or the
\* source's current time when none is given
update_last_sync(timepoint, t) == IF timepoint = None THEN t ELSE timepoint

\* (variant: the checkpoint read at the top of sync() is written back)
LastSyncArg_stale == pre.last_sync

\* the argument of self.local.update_last_sync(..) at the end of sync()
LastSyncArg == None

\* A whole pass over the calendars u..NumCals, every step at clock t
RECURSIVE SyncFrom(_, _, _, _, _, _)
SyncFrom(u, srv, loc, urls, T, t) ==
    IF u > NumCals THEN [server |-> srv, local |-> loc]
    ELSE IF u \notin urls THEN SyncFrom(u + 1, srv, loc, urls, T, t)
    ELSE LET r == SyncPair(srv[u], loc[u], T, t)
         IN SyncFrom(u + 1, [srv EXCEPT ![u] = r.server],
                     [loc EXCEPT ![u] = r.local], urls, T, t)

\* ------------------------------------------------------------------- Init
\* The calendars that the last pass that returned Ok went over without
\* reconciling them (history)
Skipped ==
    IF result = "Ok" THEN {u \in Urls : <<"unpaired", u, 0>> \in log} ELSE pre.skipped

\* What a pass starts from: both sources, the checkpoint, the clock, and
\* whether the call before it returned Ok with no mutation since.
Snapshot(srv, loc, urls, after_ok) ==
    [server |-> srv, local |-> loc, urls |-> urls, last_sync |-> last_sync,
     start |-> now, after_ok |-> after_ok, skipped |-> Skipped]

\* Both sources as tests/sync.rs builds them: the server holds every
\* calendar, the local cache a clone of it (of the first one at least). The
\* records of BaseIds are held by both sides; the last identity is that of a
\* record yet to be created (task N, task O).
BaseIds == Ids \ {NumIds}

BaseCalendar(u, base) ==
    [items   |-> [i \in IdsOf(u) |-> IF i \in base THEN NewTask(OrigName, 0) ELSE NoItem],
     deleted |-> [i \in IdsOf(u) |-> None]]

Init ==
    /\ now = 1
    /\ \E lu \in {U \in SUBSET Urls : 1 \in U} :
        /\ server = [u \in Urls |-> BaseCalendar(u, BaseIds)]
        /\ local = [u \in Urls |-> IF u \in lu THEN BaseCalendar(u, BaseIds)
                                   ELSE EmptyCalendar(u)]
        /\ local_urls = lu
    /\ last_sync \in {None, 0}
    /\ pc = "idle"
    /\ idx = 1
    /\ result = "none"
    /\ log = {}
    /\ pre = [server |-> server, local |-> local, urls |-> local_urls,
              last_sync |-> last_sync, start |-> now, after_ok |-> FALSE,
              skipped |-> {}]
    /\ resume = <<>>
    /\ edits = 0
    /\ aborts = 0

\* ---------------------------------------------------------------- actions
Source(side) == IF side = "server" THEN server ELSE local

\* a mutation of one source by its user, outside sync(); what the last
\* call returned and reported stands until then
Apply(side, u, cal) ==
    /\ pc = "idle"
    /\ edits' = edits + 1
    /\ IF side = "server"
       THEN server' = [server EXCEPT ![u] = cal] /\ UNCHANGED local
       ELSE /\ u \in local_urls
            /\ local' = [local EXCEPT ![u] = cal]
            /\ UNCHANGED server
    /\ resume' = <<>>
    /\ result' = "none"
    /\ log' = {}
    /\ pre' = Snapshot(server', local', local_urls, FALSE)
    /\ UNCHANGED <<now, local_urls, last_sync, pc, idx, aborts>>

Mutate(side, u, cal) == edits < MaxEdits /\ Apply(side, u, cal)

\* get_item_by_id_mut(id).unwrap().unwrap_task_mut().set_name(..)
Rename(side, i) ==
    LET u == CalOf(i) cal == Source(side)[u] IN
    /\ cal.items[i] # NoItem
    /\ Mutate(side, u, [cal EXCEPT !.items[i] = set_name(@, NameBy(side), now)])

\* get_item_by_id_mut(id).unwrap().unwrap_task_mut().set_completed(true)
Complete(side, i) ==
    LET u == CalOf(i) cal == Source(side)[u] IN
    /\ cal.items[i] # NoItem
    /\ Mutate(side, u, [cal EXCEPT !.items[i] = set_completed(@, now)])

\* cal.delete_item(&id)
Delete(side, i) ==
    LET u == CalOf(i) cal == Source(side)[u] IN
    /\ cal.items[i] # NoItem
    /\ Mutate(side, u, delete_item(cal, i, now))

\* cal.add_item(Item::Task(Task::new(name, Utc::now()))): a fresh identity
Create(side, i) ==
    LET u == CalOf(i) cal == Source(side)[u] IN
    /\ \A s \in {"server", "local"} :
          Source(s)[u].items[i] = NoItem /\ Source(s)[u].deleted[i] = None
    /\ Mutate(side, u, add_item(cal, i, NewTask(OrigName, now)))

\* Cache::add_calendar on the local side: a list the cache did not know
AddLocalCalendar(u) ==
    /\ pc = "idle"
    /\ u \notin local_urls
    /\ local_urls' = local_urls \cup {u}
    /\ resume' = <<>>
    /\ result' = "none"
    /\ log' = {}
    /\ pre' = Snapshot(server, local, local_urls', FALSE)
    /\ UNCHANGED <<now, server, local, last_sync, pc, idx, edits, aborts>>

\* time passes, also while a pass is running
Tick ==
    /\ now < MaxTime
    /\ now' = now + 1
    /\ UNCHANGED <<server, local, local_urls, last_sync, pc, idx, result, log, pre,
                   resume, edits, aborts>>

\* let last_sync = self.local.get_last_sync();
\* let cals_server = self.server.get_calendars_mut().await?;   (Ok)
SyncStart ==
    /\ pc = "idle"
    /\ pc' = "loop"
    /\ idx' = 1
    /\ log' = {}
    /\ result' = "none"
    /\ pre' = Snapshot(server, local, local_urls, result = "Ok")
    /\ resume' = IF result = "Ok" THEN <<>> ELSE resume
    /\ UNCHANGED <<now, server, local, local_urls, last_sync, edits, aborts>>

\* (variant: a failed listing forgets the checkpoint)
SyncListFail_forgets ==
    /\ pc = "idle"
    /\ aborts < MaxAborts
    /\ aborts' = aborts + 1
    /\ result' = "Err"
    /\ log' = {}
    /\ last_sync' = None
    /\ pre' = Snapshot(server, local, local_urls, FALSE)
    /\ UNCHANGED <<now, server, local, local_urls, pc, idx, resume, edits>>

\* (variant: the listing fails after the first calendar was reconciled)
SyncListFail_late ==
    /\ pc = "idle"
    /\ aborts < MaxAborts
    /\ aborts' = aborts + 1
    /\ result' = "Err"
    /\ log' = {}
    /\ LET r == SyncPair(server[1], local[1], last_sync, now) IN
        /\ server' = [server EXCEPT ![1] = r.server]
        /\ local' = [local EXCEPT ![1] = r.local]
    /\ pre' = Snapshot(server, local, local_urls, FALSE)
    /\ UNCHANGED <<now, local_urls, last_sync, pc, idx, resume, edits>>

\* self.server.get_calendars_mut().await?   (Err: sync() returns it)
SyncListFail ==
    /\ pc = "idle"
    /\ aborts < MaxAborts
    /\ aborts' = aborts + 1
    /\ result' = "Err"
    /\ log' = {}
    /\ pre' = Snapshot(server, local, local_urls, FALSE)
    /\ UNCHANGED <<now, server, local, local_urls, last_sync, pc, idx, resume, edits>>

\* (variant: a calendar without a local counterpart ends the pass with an error)
SyncCalendar_fatal ==
    /\ pc = "loop"
    /\ idx <= NumCals
    /\ IF idx \notin local_urls
       THEN /\ log' = log \cup {<<"unpaired", idx, 0>>}
            /\ pc' = "idle"
            /\ result' = "Err"
            /\ idx' = 1
            /\ UNCHANGED <<server, local>>
       ELSE LET r == SyncPair(server[idx], local[idx], last_sync, now) IN
            /\ server' = [server EXCEPT ![idx] = r.server]
            /\ local' = [local EXCEPT ![idx] = r.local]
            /\ log' = log \cup warnings(idx, server[idx], local[idx], last_sync, now)
            /\ idx' = idx + 1
            /\ UNCHANGED <<pc, result>>
    /\ UNCHANGED <<now, local_urls, last_sync, pre, resume, edits, aborts>>

\* one iteration of `for cal_server in cals_server`
SyncCalendar ==
    /\ pc = "loop"
    /\ idx <= NumCals
    /\ IF idx \notin local_urls
       THEN \* None => { log::error!("TODO: implement here"); continue; }
            /\ log' = log \cup {<<"unpaired", idx, 0>>}
            /\ UNCHANGED <<server, local>>
       ELSE LET r == SyncPair(server[idx], local[idx], last_sync, now) IN
            /\ server' = [server EXCEPT ![idx] = r.server]
            /\ local' = [local EXCEPT ![idx] = r.local]
            /\ log' = log \cup warnings(idx, server[idx], local[idx], last_sync, now)
    /\ idx' = idx + 1
    /\ UNCHANGED <<now, local_urls, last_sync, pc, result, pre, resume, edits, aborts>>

\* (variant: a dropped pass still writes the checkpoint)
SyncDropped_advances ==
    /\ pc = "loop"
    /\ idx <= NumCals
    /\ aborts < MaxAborts
    /\ now < MaxTime
    /\ aborts' = aborts + 1
    /\ pc' = "idle"
    /\ idx' = 1
    /\ result' = "Dropped"
    /\ last_sync' = now
    /\ now' = now + 1
    /\ resume' = IF resume = <<>>
                 THEN <<[server |-> pre.server, local |-> pre.local, urls |-> pre.urls,
                         last_sync |-> pre.last_sync, reconciled |-> idx - 1]>>
                 ELSE resume
    /\ UNCHANGED <<server, local, local_urls, log, pre, edits>>

\* the future of sync() is dropped while it waits in get_calendar_mut(..).await
SyncDropped ==
    /\ pc = "loop"
    /\ idx <= NumCals
    /\ aborts < MaxAborts
    /\ aborts' = aborts + 1
    /\ pc' = "idle"
    /\ idx' = 1
    /\ result' = "Dropped"
    /\ resume' = IF resume = <<>>
                 THEN <<[server |-> pre.server, local |-> pre.local, urls |-> pre.urls,
                         last_sync |-> pre.last_sync, reconciled |-> idx - 1]>>
                 ELSE resume
    /\ UNCHANGED <<now, server, local, local_urls, last_sync, log, pre, edits>>

\* self.local.update_last_sync(None); Ok(())
\* Any later reading of the clock is strictly after this one.
SyncFinish ==
    /\ pc = "loop"
    /\ idx > NumCals
    /\ now < MaxTime
    /\ last_sync' = update_last_sync(LastSyncArg, now)
    /\ now' = now + 1
    /\ pc' = "idle"
    /\ idx' = 1
    /\ result' = "Ok"
    /\ UNCHANGED <<server, local, local_urls, log, pre, resume, edits, aborts>>

Next ==
    \/ \E side \in {"server", "local"}, i \in Ids : Rename(side, i)
    \/ \E side \in {"server", "local"}, i \in Ids : Complete(side, i)
    \/ \E side \in {"server", "local"}, i \in Ids : Delete(side, i)
    \/ \E side \in {"server", "local"}, i \in Ids : Create(side, i)
    \/ \E u \in Urls : AddLocalCalendar(u)
    \/ Tick
    \/ SyncStart
    \/ SyncListFail
    \/ SyncCalendar
    \/ SyncDropped
    \/ SyncFinish

Spec == Init /\ [][Next]_vars

\* ------------------------------------------------- tests/sync.rs: test_sync
\* The identities of populate_test_provider, all in the one calendar of the
\* test (url 1).
task_a == 1
task_b == 2
task_c == 3
task_d == 4
task_e == 5
task_f == 6
task_g == 7
task_h == 8
task_i == 9
task_j == 10
task_k == 11
task_l == 12
task_m == 13
task_n == 14
task_o == 15

TestIds == task_a..task_o

\* Step 1: the calendar as it was at the time of the sync (task A .. task M)
TestCalendar ==
    [items   |-> [i \in TestIds |-> IF i <= task_m THEN NewTask(OrigName, 0) ELSE NoItem],
     deleted |-> [i \in TestIds |-> None]]

\* Step 2 (edit the server calendar), then step 3 (edit the local calendar)
TestScript ==
    << [side |-> "server", op |-> "delete",   id |-> task_b],
       [side |-> "server", op |-> "rename",   id |-> task_e],
       [side |-> "server", op |-> "rename",   id |-> task_f],
       [side |-> "server", op |-> "complete", id |-> task_g],
       [side |-> "server", op |-> "rename",   id |-> task_i],
       [side |-> "server", op |-> "delete",   id |-> task_j],
       [side |-> "server", op |-> "create",   id |-> task_n],
       [side |-> "local",  op |-> "delete",   id |-> task_c],
       [side |-> "local",  op |-> "rename",   id |-> task_d],
       [side |-> "local",  op |-> "rename",   id |-> task_f],
       [side |-> "local",  op |-> "complete", id |-> task_h],
       [side |-> "local",  op |-> "complete", id |-> task_i],
       [side |-> "local",  op |-> "complete", id |-> task_j],
       [side |-> "local",  op |-> "create",   id |-> task_o] >>

\* server.add_calendar(calendar.clone()); local.add_calendar(calendar.clone());
\* Provider::new(server, local, last_sync) with last_sync the time of task M
TestInit ==
    /\ now = 1
    /\ server = [u \in Urls |-> IF u = 1 THEN TestCalendar ELSE EmptyCalendar(u)]
    /\ local = server
    /\ local_urls = Urls
    /\ last_sync = 0
    /\ pc = "idle"
    /\ idx = 1
    /\ result = "none"
    /\ log = {}
    /\ pre = [server |-> server, local |-> local, urls |-> local_urls,
              last_sync |-> last_sync, start |-> now, after_ok |-> FALSE,
              skipped |-> {}]
    /\ resume = <<>>
    /\ edits = 0
    /\ aborts = 0

\* the next edit of populate_test_provider
TestEdit ==
    /\ result = "none"
    /\ edits < Len(TestScript)
    /\ LET e == TestScript[edits + 1]
           cal == Source(e.side)[1]
       IN Apply(e.side, 1,
                CASE e.op = "delete"   -> delete_item(cal, e.id, now)
                  [] e.op = "rename"   ->
                        [cal EXCEPT !.items[e.id] = set_name(@, NameBy(e.side), now)]
                  [] e.op = "complete" ->
                        [cal EXCEPT !.items[e.id] = set_completed(@, now)]
                  [] e.op = "create"   -> add_item(cal, e.id, NewTask(OrigName, now)))

\* provider.sync().await.unwrap(), once populate_test_provider has returned
TestSyncStart ==
    /\ result = "none"
    /\ edits = Len(TestScript)
    /\ SyncStart

TestNext ==
    \/ TestEdit
    \/ Tick
    \/ TestSyncStart
    \/ SyncCalendar
    \/ SyncFinish

TestSpec == TestInit /\ [][TestNext]_vars

\* ------------------------------------------------------------- properties
\* sync() has returned Ok(()) and neither source was touched since; pre is
\* what the pass started from.
Done == pc = "idle" /\ result = "Ok"

\* what a record says: its name and its completion flag (NoItem when absent)
Content(item) == <<item.name, item.completed>>

Paired(u) == u \in pre.urls

\* modified (or created) since the checkpoint the pass read
ModifiedOn(cal, i) == i \in get_tasks_modified_since(cal, pre.last_sync)

\* deleted since the checkpoint the pass read
DeletedOn(cal, i) ==
    /\ pre.last_sync # None
    /\ cal.items[i] = NoItem
    /\ i \in get_items_deleted_since(cal, pre.last_sync)

\* C1 (Convergence): after sync() returns Ok, every server calendar with a
\* local counterpart holds the same identities as that counterpart, each with
\* the same name and completion flag.
C1_Convergence ==
    Done => \A u \in Urls : Paired(u) =>
                \A i \in IdsOf(u) :
                    Content(server[u].items[i]) = Content(local[u].items[i])

\* C2 (Acceptance scenario): after the one sync() of test_sync both sides
\* hold exactly A, D' (local rename), E', F', I' (server renames, I not
\* completed), G and H completed, K, L, M, N, O; B, C and J are held by
\* neither side.
Expected(i) ==
    CASE i \in {task_b, task_c, task_j} -> Content(NoItem)
      [] i = task_d -> <<NameBy("local"), FALSE>>
      [] i \in {task_e, task_f, task_i} -> <<NameBy("server"), FALSE>>
      [] i \in {task_g, task_h} -> <<OrigName, TRUE>>
      [] OTHER -> <<OrigName, FALSE>>

C2_TestSyncExpected ==
    Done => \A i \in TestIds :
                /\ Content(server[1].items[i]) = Expected(i)
                /\ Content(local[1].items[i]) = Expected(i)

\* C3 (Tie-break): an identity held and modified on both sides since the
\* checkpoint ends on both sides as the server's record, whatever the order
\* of the two last-modified times.
BothModified(u, i) ==
    /\ Paired(u)
    /\ ModifiedOn(pre.server[u], i)
    /\ ModifiedOn(pre.local[u], i)

C3_ServerWins ==
    Done => \A u \in Urls : \A i \in IdsOf(u) :
                BothModified(u, i) =>
                    /\ server[u].items[i] = pre.server[u].items[i]
                    /\ local[u].items[i] = pre.server[u].items[i]

\* the local edit is the later one and says something else than the server's
C3_Witness ==
    /\ Done
    /\ \E u \in Urls : \E i \in IdsOf(u) :
        /\ BothModified(u, i)
        /\ pre.last_sync # None
        /\ pre.local[u].items[i].last_modified > pre.server[u].items[i].last_modified
        /\ Content(pre.local[u].items[i]) # Content(pre.server[u].items[i])
        /\ local[u].items[i] = pre.server[u].items[i]

\* C4 (No data loss on disjoint edits): an identity modified or created on
\* one side only since the checkpoint, and not deleted on the other side,
\* ends on both sides as that modified record.
OnlyServerModified(u, i) ==
    /\ Paired(u)
    /\ ModifiedOn(pre.server[u], i)
    /\ ~ModifiedOn(pre.local[u], i)
    /\ ~DeletedOn(pre.local[u], i)

OnlyLocalModified(u, i) ==
    /\ Paired(u)
    /\ ModifiedOn(pre.local[u], i)
    /\ ~ModifiedOn(pre.server[u], i)
    /\ ~DeletedOn(pre.server[u], i)

C4_DisjointEditsKept ==
    Done =>
        \A u \in Urls : \A i \in IdsOf(u) :
            /\ OnlyServerModified(u, i) =>
                  /\ server[u].items[i] = pre.server[u].items[i]
                  /\ local[u].items[i] = pre.server[u].items[i]
            /\ OnlyLocalModified(u, i) =>
                  /\ server[u].items[i] = pre.local[u].items[i]
                  /\ local[u].items[i] = pre.local[u].items[i]

\* C5 (Deletion propagation): an identity deleted on one side and not
\* modified on the other since the checkpoint is held by neither side after
\* sync() returns Ok.
C5_DeletionPropagates ==
    Done => \A u \in Urls : \A i \in IdsOf(u) :
                (/\ Paired(u)
                 /\ \/ DeletedOn(pre.server[u], i) /\ ~ModifiedOn(pre.local[u], i)
                    \/ DeletedOn(pre.local[u], i) /\ ~ModifiedOn(pre.server[u], i))
                => /\ server[u].items[i] = NoItem
                   /\ local[u].items[i] = NoItem

\* one pass with both directions: the server still held a record that the
\* local side deleted, and the local side still held a record that the
\* server deleted
C5_Witness ==
    /\ Done
    /\ \E u \in Urls : \E i \in IdsOf(u) :
        /\ Paired(u)
        /\ DeletedOn(pre.local[u], i)
        /\ pre.server[u].items[i] # NoItem
        /\ ~ModifiedOn(pre.server[u], i)
        /\ server[u].items[i] = NoItem
    /\ \E u \in Urls : \E i \in IdsOf(u) :
        /\ Paired(u)
        /\ DeletedOn(pre.server[u], i)
        /\ pre.local[u].items[i] # NoItem
        /\ ~ModifiedOn(pre.local[u], i)
        /\ local[u].items[i] = NoItem

\* C6 (Idempotence): a sync() that follows a successful sync() with no
\* mutation in between leaves the records of both sides as they were and
\* reports no conflict.
Records(src) == [u \in Urls |-> src[u].items]

C6_Idempotent ==
    (Done /\ pre.after_ok) =>
        /\ Records(server) = Records(pre.server)
        /\ Records(local) = Records(pre.local)
        /\ \A l \in log : l[1] = "unpaired"

\* the first of the two passes had something to reconcile
C6_Witness ==
    /\ Done
    /\ pre.after_ok
    /\ edits > 0
    /\ \E u \in Urls : Paired(u) /\ Held(server[u]) # {}

\* C7 (Checkpoint start time): after sync() returns Ok the checkpoint is the
\* time at which the pass started.
C7_CheckpointIsStart == Done => last_sync = pre.start

\* C8 (Checkpoint monotonicity): no step of any sync() call, successful,
\* failed or dropped, moves the checkpoint to an earlier value (None, no
\* checkpoint, being before every time).
C8_CheckpointMonotonic == [][last_sync' >= last_sync]_vars

\* a second successful pass has moved an existing checkpoint forward
C8_Witness == Done /\ pre.last_sync > 0 /\ last_sync > pre.last_sync

\* C9 (Unreachable source): when listing the server's calendars fails,
\* sync() returns the error with the checkpoint and every record of both
\* sides as they were.
C9_ListFailureChangesNothing ==
    (pc = "idle" /\ result = "Err") =>
        /\ last_sync = pre.last_sync
        /\ server = pre.server
        /\ local = pre.local

\* the failed call had changes to reconcile
C9_Witness ==
    /\ pc = "idle"
    /\ result = "Err"
    /\ \E i \in IdsOf(1) : ModifiedOn(server[1], i) /\ pre.last_sync # None

\* C10 (Interrupted pass): a dropped pass leaves the checkpoint as it was,
\* and the complete pass that follows it with no mutation in between leaves
\* both sides with the records that one uninterrupted pass would have left.
Uninterrupted(r) == SyncFrom(1, r.server, r.local, r.urls, r.last_sync, now)

C10_ResumedPass ==
    /\ (pc = "idle" /\ result = "Dropped") => last_sync = pre.last_sync
    /\ (Done /\ resume # <<>>) =>
          /\ Records(server) = Records(Uninterrupted(resume[1]).server)
          /\ Records(local) = Records(Uninterrupted(resume[1]).local)

\* the dropped pass had reconciled a calendar and changed a record, and the
\* calendar left over had a change too
C10_Witness ==
    /\ Done
    /\ resume # <<>>
    /\ resume[1].reconciled >= 1
    /\ Records(pre.server) # Records(resume[1].server)
    /\ Records(server) # Records(pre.server)

\* C11 (Conflict report completeness): every conflict of a pass is in what
\* the pass reports, in each of its three shapes: modified on both sides,
\* deleted locally and modified on the server, deleted on the server and
\* modified locally.
Reported(u, i) == \E l \in log : l[2] = u /\ l[3] = i /\ l[1] # "unpaired"

Conflict(u, i) ==
    /\ Paired(u)
    /\ \/ ModifiedOn(pre.server[u], i) /\ ModifiedOn(pre.local[u], i)
       \/ DeletedOn(pre.local[u], i) /\ ModifiedOn(pre.server[u], i)
       \/ DeletedOn(pre.server[u], i) /\ ModifiedOn(pre.local[u], i)

C11_ConflictsReported ==
    Done => \A u \in Urls : \A i \in IdsOf(u) : Conflict(u, i) => Reported(u, i)

\* C12 (Unpaired collection is not fatal): a server calendar without a local
\* counterpart is reported by an error line and left as it was, every paired
\* calendar is reconciled all the same, and sync() returns Ok.
Unpaired == {u \in Urls : u \notin pre.urls}

Iterating == pc = "loop" /\ idx <= NumCals /\ idx \in local_urls

C13_LocalModFromSnapshot ==
    Iterating =>
        local_mod(server[idx], local[idx], last_sync, now)
            = get_tasks_modified_since(local[idx], last_sync)

\* C14 (Skipped pair is retried without loss): when the last successful
\* pass skipped a server calendar for want of a local counterpart and the
\* counterpart exists at this pass, every record that the server calendar
\* held when that pass ran is held by the local calendar after this one.
RetriedAfterSkip(u) == u \in pre.skipped /\ Paired(u) /\ pre.last_sync # None

C14_SkippedPairCatchesUp ==
    Done => \A u \in Urls : RetriedAfterSkip(u) =>
                \A i \in IdsOf(u) :
                    (/\ server[u].items[i] # NoItem
                     /\ server[u].items[i].last_modified <= pre.last_sync)
                    => local[u].items[i] = server[u].items[i]


\* C15 (Conflict report soundness): a conflict is reported for an identity
\* only if both sides changed it since the checkpoint; an identity modified
\* on the server only is pulled without a conflict report.
C15_ConflictReportSound ==
    Done => \A l \in log : l[1] # "unpaired" => Conflict(l[2], l[3])




\* C16 (Local delete versus server edit): an identity deleted locally and
\* modified on the server since the checkpoint is, after sync(), present on
\* both sides with the server's record; it is not removed from the server.
LocalDelServerMod(u, i) ==
    /\ Paired(u)
    /\ DeletedOn(pre.local[u], i)
    /\ ModifiedOn(pre.server[u], i)

C16_LocalDeleteServerEdit ==
    Done => \A u \in Urls : \A i \in IdsOf(u) :
        LocalDelServerMod(u, i) =>
            /\ server[u].items[i] = pre.server[u].items[i]
            /\ local[u].items[i] = pre.server[u].items[i]
            /\ server[u].items[i] # NoItem

C16_Witness ==
    /\ Done
    /\ \E u \in Urls : \E i \in IdsOf(u) :
          /\ LocalDelServerMod(u, i)
          /\ pre.server[u].items[i].name = NameBy("server")
          /\ local[u].items[i] # NoItem

\* C17 (Server delete versus local edit): an identity deleted on the server
\* and modified locally since the checkpoint is, after sync(), absent from
\* both sides: the local edit is neither kept nor pushed back.
ServerDelLocalMod(u, i) ==
    /\ Paired(u)
    /\ DeletedOn(pre.server[u], i)
    /\ ModifiedOn(pre.local[u], i)

C17_ServerDeleteLocalEdit ==
    Done => \A u \in Urls : \A i \in IdsOf(u) :
        ServerDelLocalMod(u, i) =>
            /\ server[u].items[i] = NoItem
            /\ local[u].items[i] = NoItem

C17_Witness ==
    /\ Done
    /\ \E u \in Urls : \E i \in IdsOf(u) :
          /\ ServerDelLocalMod(u, i)
          /\ pre.local[u].items[i].name = NameBy("local")
          /\ local[u].items[i] = NoItem


\* C18 (No add onto an existing identity): in every iteration of sync() no
\* record is added to a calendar that at that moment holds a record with
\* the same identity, on the pull into the local calendar and on the push
\* to the server calendar alike.
IdsOfVec(items) == {items[k].id : k \in 1..Len(items)}

AddsOntoHeld(cs, cl, T, t) ==
    (IdsOfVec(tasks_to_add_to_local(cs, T)) \cap Held(local_after_removal(cs, cl, T, t)))
    \cup
    (IdsOfVec(tasks_to_add_to_server(cs, cl, T, t))
        \cap Held(remove_from_calendar(
                      SeqOf(tasks_id_to_remove_from_server(cs, cl, T)), cs, t)))

C18_NoAddOntoHeld ==
    Iterating => AddsOntoHeld(server[idx], local[idx], last_sync, now) = {}


\* C19 (Record timestamp monotonicity), as stated: for every identity held
\* in a calendar, on either side, no step of a user edit or of sync() makes
\* its last-modified timestamp smaller.
Stamp(src, u, i) == src[u].items[i].last_modified

HeldAcross(src, srcNext, u, i) ==
    src[u].items[i] # NoItem /\ srcNext[u].items[i] # NoItem

C19_TimestampNeverDecreases ==
    [][\A u \in Urls : \A i \in IdsOf(u) :
          /\ HeldAcross(server, server', u, i) => Stamp(server', u, i) >= Stamp(server, u, i)
          /\ HeldAcross(local, local', u, i) => Stamp(local', u, i) >= Stamp(local, u, i)]_vars

\* C19, amended: the timestamp of a record held in a server calendar never
\* gets smaller; the timestamp of a record held in a local calendar gets
\* smaller only in an iteration of sync() that replaces the record by the
\* server's record, timestamp included.
C19_TimestampAmended ==
    [][\A u \in Urls : \A i \in IdsOf(u) :
          /\ HeldAcross(server, server', u, i) => Stamp(server', u, i) >= Stamp(server, u, i)
          /\ HeldAcross(local, local', u, i) =>
                \/ Stamp(local', u, i) >= Stamp(local, u, i)
                \/ /\ pc = "loop" /\ idx = u
                   /\ local'[u].items[i] = server[u].items[i]
                   /\ server'[u].items[i] = server[u].items[i]]_vars

C19_Witness ==
    /\ Done
    /\ \E u \in Urls : \E i \in IdsOf(u) :
          /\ Paired(u)
          /\ pre.local[u].items[i] # NoItem
          /\ local[u].items[i] = pre.server[u].items[i]
          /\ local[u].items[i].last_modified < pre.local[u].items[i].last_modified
          /\ local[u].items[i].last_modified >= 0


\* C20 (First sync): a pass that finds no checkpoint leaves, in every paired
\* calendar, both sides holding exactly the identities that either side
\* held before it, with the server's record for every identity the server
\* held and the local record for the others; tombstones play no part.
FirstSync == Done /\ pre.last_sync = None

UnionOfBefore(u) == Held(pre.server[u]) \cup Held(pre.local[u])

C20_FirstSyncUnion ==
    FirstSync => \A u \in Urls : Paired(u) =>
        /\ Held(server[u]) = UnionOfBefore(u)
        /\ Held(local[u]) = UnionOfBefore(u)
        /\ \A i \in Held(pre.server[u]) :
              /\ server[u].items[i] = pre.server[u].items[i]
              /\ local[u].items[i] = pre.server[u].items[i]
        /\ \A i \in Held(pre.local[u]) \ Held(pre.server[u]) :
              /\ server[u].items[i] = pre.local[u].items[i]
              /\ local[u].items[i] = pre.local[u].items[i]

C20_Witness ==
    /\ FirstSync
    /\ \E u \in Urls : \E i \in IdsOf(u) :
          /\ Paired(u)
          /\ pre.server[u].items[i] = NoItem
          /\ pre.server[u].deleted[i] # None
          /\ pre.local[u].items[i] # NoItem
          /\ server[u].items[i] = pre.local[u].items[i]
    /\ \E u \in Urls : \E i \in IdsOf(u) :
          /\ Paired(u)
          /\ pre.server[u].items[i] # NoItem
          /\ pre.local[u].items[i] # NoItem
          /\ pre.local[u].items[i] # pre.server[u].items[i]
          /\ local[u].items[i] = pre.server[u].items[i]

====
